---- MODULE Spec2Model ----
(***************************************************************************)
(* State-machine model of the two imitation-learning agents of C-LAIfO:    *)
(*   LailBisimAgent  (src/agents/bisim/lail_bisim.py)                      *)
(*   LailClAgent     (src/agents/multi_dataset/lail_cl.py)                 *)
(*                                                                         *)
(* Abstraction.  Every network is reduced to one scalar weight, every Adam *)
(* optimizer to the number of steps it has taken, and the .grad of a       *)
(* network to the set of losses back-propagated into it since it was last  *)
(* cleared; an optimizer step moves the weight only if that set is not     *)
(* empty.  A latent tensor carries the set of networks it is attached to,  *)
(* which no_grad and detach leave empty.  The critic and its               *)
(* target are exact rationals, so that the Polyak update is computed, not  *)
(* merely counted.  A Q-network with weight w outputs w; the discriminator *)
(* with weight w scores every transition as w.  Actions live on the grid   *)
(* -ActScale..ActScale, which stands for the interval [-1,1].              *)
(*                                                                         *)
(* One action models one public method call.  The statements of a method   *)
(* are composed, in source order, as operators over a record `s` holding   *)
(* the mutable agent state, the metrics dict of the call, the sequence of  *)
(* sub-steps executed so far, the local values of the call and the         *)
(* exception it has raised, if any.  An image batch is reduced to what the *)
(* code tests of it: whether its images are square and how many rows it    *)
(* has; an augmenter to its kind (random shift or photometric stack).      *)
(*                                                                         *)
(* Spec runs correctly configured agents on well-formed batches.  The      *)
(* further specifications run the same update on unsupported option        *)
(* values (SpecOptions), failing image dumps (SpecDumps), non-square       *)
(* images (SpecSquare) and unequal batch sizes (SpecSizes), and evaluate   *)
(* the row pairing of update_CL (SpecPairs), the least-square reward       *)
(* (SpecReward) and compute_logits (SpecLogits) on enumerated operands,    *)
(* which the variable fx holds.                                            *)
(***************************************************************************)
EXTENDS Integers, Sequences, FiniteSets, TLC

VARIABLES cfg, net, opt, mode, iters, call, ret, trace, loc, ncalls, fx, attrs, grad

vars == <<cfg, net, opt, mode, iters, call, ret, trace, loc, ncalls, fx, attrs, grad>>

---------------------------------------------------------------------------
(* Bounds of the model *)

MaxCalls == 2
MaxStep == 2
ActScale == 2
MaxBatch == 3
MaxScore == 4
MaxCoef == 2
MaxRows == 2

Steps == 0..MaxStep
Grads == {-1, 1}
Taus == {<<1, 4>>, <<1, 1>>}

---------------------------------------------------------------------------
(* Exact rational arithmetic: <<n, d>> with d > 0, in lowest terms *)

Abs(x) == IF x < 0 THEN -x ELSE x

RECURSIVE GCD(_, _)
GCD(a, b) == IF b = 0 THEN a ELSE GCD(b, a % b)

Rat(n, d) == LET g == GCD(Abs(n), d) IN <<n \div g, d \div g>>

RInt(n) == <<n, 1>>

RAdd(x, y) == Rat(x[1] * y[2] + y[1] * x[2], x[2] * y[2])

RSub(x, y) == Rat(x[1] * y[2] - y[1] * x[2], x[2] * y[2])

RMul(x, y) == Rat(x[1] * y[1], x[2] * y[2])

RLess(x, y) == x[1] * y[2] < y[1] * x[2]

RMin(x, y) == IF RLess(y, x) THEN y ELSE x

RMax(x, y) == IF RLess(x, y) THEN y ELSE x

RSign(x) == IF x[1] > 0 THEN 1 ELSE IF x[1] < 0 THEN -1 ELSE 0

Clamp(x, lo, hi) == IF x < lo THEN lo ELSE IF x > hi THEN hi ELSE x

---------------------------------------------------------------------------
(* Constructor configurations *)

Variants == {"bisim", "cl"}

BisimConfigs ==
    [variant : {"bisim"}, from_dem : BOOLEAN, GAN_loss : {"least-square", "bce"},
     use_tb : BOOLEAN, critic_target_tau : Taus,
     update_every_steps : {2}, num_expl_steps : {2},
     check_every_steps : {4}, reward_d_coef : {1},
     stochastic_encoder : {FALSE}, train_encoder_w_critic : {TRUE},
     transition_model_type : {"probabilistic"},
     CL_data_type : {"all"}, add_aug_anchor_and_positive : {FALSE},
     aug_type : {"full"}, apply_aug : {"everywhere"},
     depth_flag : {FALSE}, segm_flag : {FALSE}]

ClConfigs ==
    [variant : {"cl"}, from_dem : BOOLEAN, GAN_loss : {"least-square", "bce"},
     use_tb : BOOLEAN, critic_target_tau : Taus,
     update_every_steps : {2}, num_expl_steps : {2},
     check_every_steps : {4}, reward_d_coef : {1},
     stochastic_encoder : BOOLEAN, train_encoder_w_critic : BOOLEAN,
     transition_model_type : {"probabilistic"},
     CL_data_type : {"all"}, add_aug_anchor_and_positive : {FALSE},
     aug_type : {"full"}, apply_aug : {"everywhere"},
     depth_flag : {FALSE}, segm_flag : {FALSE}]

Configs == BisimConfigs \cup ClConfigs

\* The values the constructors' string options accept, and one value of each
\* option that no branch of the code names.
TransitionModelTypes == {"deterministic", "probabilistic"}
AugTypes == {"brightness", "color", "full"}
ApplyAugModes == {"everywhere", "nowhere", "CL-only", "CL-D", "CL-Q"}
CLDataTypes == {"agent", "expert", "all"}
Unsupported == "unsupported"

---------------------------------------------------------------------------
(* Construction: LailBisimAgent.__init__ / LailClAgent.__init__ *)

\* Network weights after construction; critic_target.load_state_dict copies
\* the freshly initialised critic.
InitNet ==
    [encoder |-> 0, actor |-> 0, critic |-> RInt(0), critic_target |-> RInt(0),
     discriminator |-> 0, transition_model |-> 0, reward_decoder |-> 0, CL |-> 0]

\* Adam step counts of the optimizers created by the constructor.
InitOpt ==
    [encoder |-> 0, actor |-> 0, critic |-> 0, discriminator |-> 0,
     transition_model |-> 0, reward_decoder |-> 0, CL |-> 0]

\* self.train(); self.critic_target.train()
InitMode ==
    [training |-> TRUE, encoder |-> TRUE, actor |-> TRUE, critic |-> TRUE,
     discriminator |-> TRUE, CL |-> TRUE, critic_target |-> TRUE]

\* Number of batches drawn so far from each buffer iterator handed to update.
InitIters == [agent |-> 0, expert |-> 0, random |-> 0, expert_random |-> 0]

\* The .grad of each network's parameters: the losses whose backward passes
\* have accumulated into it since it was last cleared ({} is None).  The
\* critic target is never handed to an optimizer or reached by a loss.
InitGrad ==
    [encoder |-> {}, actor |-> {}, critic |-> {}, critic_target |-> {},
     discriminator |-> {}, transition_model |-> {}, reward_decoder |-> {}, CL |-> {}]

\* The parameters and optimizer states at one point of a call.
NoSnapshot == [net |-> InitNet, opt |-> InitOpt]

\* Local values of the running call that the properties refer to: `graph` is
\* the set of networks each latent tensor is attached to for autograd,
\* `applied` the gradients the optimizer steps of the call consumed, `pre` and
\* `post` the parameters on entry to and on return from each method.
NoLoc ==
    [reward |-> RInt(0), reward_a |-> 0, discount |-> 0,
     target_V |-> RInt(0), target_Q |-> RInt(0), critic_loss_reward |-> "none",
     live_at_soft |-> RInt(0), target_before_soft |-> RInt(0),
     d_mode_pre |-> TRUE, d_mode_scoring |-> TRUE, d_mode_post |-> TRUE,
     d |-> 0, mean |-> 0, sample |-> 0, action |-> 0,
     square |-> [agent |-> TRUE, expert |-> TRUE],
     n |-> [agent |-> 0, expert |-> 0],
     dump_fails |-> "none", idx_high |-> FALSE,
     aug |-> [D |-> "none", R |-> "none", Q |-> "none",
              anchor |-> "none", positive |-> "none"],
     graph |-> [D |-> {}, obs |-> {}, next_obs |-> {}, actor_obs |-> {},
                anchor |-> {}, positive |-> {}],
     applied |-> {},
     pre |-> [update_CL |-> NoSnapshot, update_discriminator |-> NoSnapshot,
              compute_reward |-> NoSnapshot, update_critic |-> NoSnapshot,
              update_actor |-> NoSnapshot],
     post |-> [update_CL |-> NoSnapshot, update_discriminator |-> NoSnapshot,
               compute_reward |-> NoSnapshot, update_critic |-> NoSnapshot,
               update_actor |-> NoSnapshot]]

NoCall ==
    [op |-> "init", step |-> 0, eval_mode |-> FALSE, training |-> TRUE,
     obs |-> 0, eps |-> 0, noise |-> 0, u |-> 0]

NoRet == [kind |-> "none", metrics |-> {}, action |-> 0, exc |-> "none"]

\* TransitionModel.__init__: the layers the chosen model_type defines.  The
\* final else branch evaluates the name NotImplementedError and raises
\* nothing, so an unknown type leaves the model without its mu layer.
TransitionModelInit(model_type) ==
    IF model_type \in TransitionModelTypes THEN "Linear" ELSE "unset"

\* The augmentation pipeline DEFAULT_AUG that select_aug_type builds for
\* aug_type; the final else branch raises nothing and leaves the local unbound.
DefaultAug(aug_type) ==
    IF aug_type \in AugTypes THEN "photometric" ELSE "unbound"

NoAttrs ==
    [apply_aug |-> "unset", augment1 |-> "unset", augment2 |-> "unset",
     aug_D |-> "unset", aug_Q |-> "unset", aug |-> "unset", mu |-> "unset"]

\* Faulty variant: the 'CL-D' and 'CL-Q' branches are exchanged.
select_aug_type_swappedDQ(a, aug_type, apply_aug) ==
    LET D == DefaultAug(aug_type)
        shift == "RandomShiftsAug"
    IN  IF apply_aug \in {"everywhere", "CL-only", "CL-D", "CL-Q"} /\ D = "unbound"
        THEN [exc |-> "UnboundLocalError", attrs |-> a]
        ELSE [exc |-> "none", attrs |->
              CASE apply_aug = "everywhere" ->
                     [a EXCEPT !.augment1 = D, !.augment2 = D,
                               !.aug_D = D, !.aug_Q = D]
                [] apply_aug = "nowhere" ->
                     [a EXCEPT !.augment1 = shift, !.augment2 = shift,
                               !.aug_D = shift, !.aug_Q = shift]
                [] apply_aug = "CL-only" ->
                     [a EXCEPT !.augment1 = D, !.augment2 = D,
                               !.aug_D = shift, !.aug_Q = shift]
                [] apply_aug = "CL-D" ->
                     [a EXCEPT !.augment1 = D, !.augment2 = D,
                               !.aug_D = shift, !.aug_Q = D]
                [] apply_aug = "CL-Q" ->
                     [a EXCEPT !.augment1 = D, !.augment2 = D,
                               !.aug_D = D, !.aug_Q = shift]
                [] OTHER -> a]

\* select_aug_type(aug_type, apply_aug, obs_shape): the augmenters of the
\* contrastive views (augment1, augment2), of the discriminator input (aug_D)
\* and of the critic/actor input (aug_Q).  Reading the unbound DEFAULT_AUG
\* raises UnboundLocalError.
select_aug_type(a, aug_type, apply_aug) ==
    LET D == DefaultAug(aug_type)
        shift == "RandomShiftsAug"
    IN  IF apply_aug \in {"everywhere", "CL-only", "CL-D", "CL-Q"} /\ D = "unbound"
        THEN [exc |-> "UnboundLocalError", attrs |-> a]
        ELSE [exc |-> "none", attrs |->
              CASE apply_aug = "everywhere" ->
                     [a EXCEPT !.augment1 = D, !.augment2 = D,
                               !.aug_D = D, !.aug_Q = D]
                [] apply_aug = "nowhere" ->
                     [a EXCEPT !.augment1 = shift, !.augment2 = shift,
                               !.aug_D = shift, !.aug_Q = shift]
                [] apply_aug = "CL-only" ->
                     [a EXCEPT !.augment1 = D, !.augment2 = D,
                               !.aug_D = shift, !.aug_Q = shift]
                [] apply_aug = "CL-D" ->
                     [a EXCEPT !.augment1 = D, !.augment2 = D,
                               !.aug_D = D, !.aug_Q = shift]
                [] apply_aug = "CL-Q" ->
                     [a EXCEPT !.augment1 = D, !.augment2 = D,
                               !.aug_D = shift, !.aug_Q = D]
                [] OTHER -> a]

\* LailBisimAgent.__init__: the transition model and the one augmenter.
ConstructBisim(c) ==
    [exc |-> "none",
     attrs |-> [NoAttrs EXCEPT !.mu = TransitionModelInit(c.transition_model_type),
                               !.aug = "RandomShiftsAug"]]

\* LailClAgent.__init__: self.apply_aug = apply_aug; select_aug_type(...);
\* then the depth/segmentation override of self.apply_aug.
ConstructCl(c) ==
    LET a0 == [NoAttrs EXCEPT !.apply_aug = c.apply_aug]
        r1 == select_aug_type(a0, c.aug_type, c.apply_aug)
    IN  IF r1.exc # "none" THEN r1
        ELSE IF c.depth_flag \/ c.segm_flag
             THEN [r1 EXCEPT !.attrs.apply_aug = "nowhere"]
             ELSE r1

Construct(c) == IF c.variant = "bisim" THEN ConstructBisim(c) ELSE ConstructCl(c)

\* No pure function is under evaluation.
NoFx == [f |-> "none"]

InitState ==
    /\ net = InitNet
    /\ opt = InitOpt
    /\ mode = InitMode
    /\ iters = InitIters
    /\ grad = InitGrad
    /\ call = NoCall
    /\ trace = <<>>
    /\ loc = NoLoc
    /\ ncalls = 0

\* The constructor returned an agent.
Constructed == ~(call.op = "init" /\ ret.kind = "error")

\* The agent after construction from a configuration of C; a constructor
\* that raises leaves no agent to call.
InitAgent(C) ==
    /\ cfg \in C
    /\ attrs = Construct(cfg).attrs
    /\ ret = IF Construct(cfg).exc = "none" THEN NoRet
             ELSE [NoRet EXCEPT !.kind = "error", !.exc = Construct(cfg).exc]
    /\ InitState

InitWith(C) == InitAgent(C) /\ fx = NoFx

Init == InitWith(Configs)

---------------------------------------------------------------------------
(* The running call: agent state plus the call's metrics, sub-steps, locals *)

Begin ==
    [net |-> net, opt |-> opt, mode |-> mode, iters |-> iters, grad |-> grad,
     metrics |-> {}, trace |-> <<>>, loc |-> NoLoc, no_grad |-> FALSE,
     exc |-> "none"]


\* A sub-step `op` on `arg`, with the gradient context it runs in.
Ev(s, op, arg) ==
    [s EXCEPT !.trace = Append(@, [op |-> op, arg |-> arg, no_grad |-> s.no_grad])]

\* raise <exc>: the exception the running call ends with.
Raise(s, e) == [Ev(s, "raise", e) EXCEPT !.exc = e]

\* The statements F run on the outcome of s unless s has raised; the outcome
\* of s is computed once and handed to F.
Then(s, F(_)) ==
    CHOOSE r \in {IF x.exc # "none" THEN x ELSE F(x) : x \in {s}} : TRUE

\* with torch.no_grad():
NoGrad(s, on) == [s EXCEPT !.no_grad = on]

\* Faulty variant: metrics are recorded whatever use_tb is.
Log_unconditional(s, keys) == [s EXCEPT !.metrics = @ \cup keys]

\* if self.use_tb: metrics[...] = ...
Log(s, keys) == IF cfg.use_tb THEN [s EXCEPT !.metrics = @ \cup keys] ELSE s

\* <name>_opt.zero_grad(): the gradients of the optimizer's parameters are
\* cleared (set to None, or to zero by the older default of the bare call).
ZeroGrad(s, name) == [s EXCEPT !.grad[name] = {}]

\* self.encoder(x): the latent is attached to the encoder unless it is
\* computed under torch.no_grad(); the images themselves carry no graph.
Encode(s, slot) ==
    Then(s, LAMBDA x :
        [Ev(x, "forward", "encoder") EXCEPT
            !.loc.graph[slot] = @ \cup (IF x.no_grad THEN {} ELSE {"encoder"})])

\* x.detach(): the tensor handed on is cut from the graph of x.
Detach(s, from, to) == [Ev(s, "detach", from) EXCEPT !.loc.graph[to] = {}]

\* loss.backward(): the loss accumulates into the .grad of every parameter it
\* reaches, those of the modules it was computed with and those its input
\* latents are attached to.
Backward(s, loss, modules, inputs) ==
    Then(s, LAMBDA x :
        [Ev(x, "backward", loss) EXCEPT
            !.grad = [n \in DOMAIN x.grad |->
                         IF n \in modules \cup UNION {x.loc.graph[i] : i \in inputs}
                         THEN x.grad[n] \cup {loss} ELSE x.grad[n]]])

\* <name>_opt.step(): one Adam step on the parameters the optimizer was built
\* over, moving the weight by g; Adam skips parameters whose .grad is None.
OptStep(s, name, g) ==
    Then(s, LAMBDA x :
        IF x.grad[name] = {} THEN Ev(x, "step", name)
        ELSE [Ev(x, "step", name) EXCEPT
                 !.net[name] = @ + g, !.opt[name] = @ + 1,
                 !.loc.applied = @ \cup {<<name, x.grad[name]>>}])

\* On entry to a method of the agent: the call, and the parameters it finds.
Enter(s, fn) ==
    Then(s, LAMBDA x :
        [Ev(x, "call", fn) EXCEPT !.loc.pre[fn] = [net |-> x.net, opt |-> x.opt]])

\* On return from a method: the parameters it leaves.
Leave(s, fn) ==
    Then(s, LAMBDA x : [x EXCEPT !.loc.post[fn] = [net |-> x.net, opt |-> x.opt]])

\* Positions of a sub-step in a trace.
Pos(tr, op, arg) == {i \in DOMAIN tr : tr[i].op = op /\ tr[i].arg = arg}

Count(tr, op, arg) == Cardinality(Pos(tr, op, arg))

\* The position of a sub-step that occurs exactly once (0 otherwise).
At(tr, op, arg) ==
    IF Count(tr, op, arg) = 1 THEN CHOOSE i \in Pos(tr, op, arg) : TRUE ELSE 0

---------------------------------------------------------------------------
(* Networks *)

\* nn.Tanh / torch.tanh on the grid: bounded by -ActScale..ActScale.
Tanh(x) == Clamp(x, -ActScale, ActScale)

\* Encoder.forward: the latent of an observation; a stochastic encoder
\* returns a sample, drawn anew on every call (eps is the draw).
EncoderForward(w, obs, eps) ==
    IF cfg.variant = "cl" /\ cfg.stochastic_encoder
    THEN Tanh(w + obs) + eps
    ELSE Tanh(w + obs)

\* Actor.forward: mu = tanh(policy(obs)), the mean of the action distribution.
ActorMean(w, z) == Tanh(w + z)

\* Critic.forward of a network with weight w (both heads).
QValue(w) == w

\* Discriminator.forward: the raw score d = self.net(transition).
DiscScore(w) == w

\* utils.TruncatedNormal.sample(clip=None): mean plus noise, bounded.
SampleNoClip(mu, noise) == Clamp(mu + noise, -ActScale, ActScale)

\* utils_dreamer.Bernoulli.mode of logits d: the more likely label.
BernoulliMode(d) == IF d > 0 THEN 1 ELSE 0

\* utils.soft_update_params(net, target_net, tau)
SoftUpdateValue(live, target, tau) ==
    RAdd(RMul(tau, live), RMul(RSub(RInt(1), tau), target))

---------------------------------------------------------------------------
(* Augmentation: RandomShiftsAug.forward, CustomAug.forward *)

\* Faulty variant: the augmenters do not check the image shape.
AssertSquare_absent(s, who) == s

\* assert h == w, the first statement of RandomShiftsAug.forward,
\* CustomAug.forward and augment.
AssertSquare(s, who) ==
    IF s.loc.square[who] THEN s ELSE Raise(s, "AssertionError")

\* The augmenter a use-site calls: self.aug in the bisimulation agent,
\* self.aug_D / self.aug_Q in the contrastive agent.
AugmenterAt(site) ==
    IF cfg.variant = "bisim" THEN attrs.aug
    ELSE IF site = "Q" THEN attrs.aug_Q ELSE attrs.aug_D

\* One augmenter call on a batch of `who`; `slot` is where the call's
\* augmenter is noted.
Aug(s, site, slot, who) ==
    Then(s, LAMBDA x :
        IF AugmenterAt(site) = "unset" THEN Raise(x, "AttributeError")
        ELSE Then(AssertSquare(x, who), LAMBDA y :
                 [Ev(y, "aug", site) EXCEPT !.loc.aug[slot] = AugmenterAt(site)]))

\* obs_e, next_obs_e, obs_a, next_obs_a: the augmented discriminator inputs.
AugForDiscriminator(s) ==
    LET a1 == Aug(s, "D", "D", "expert")
        a2 == Aug(a1, "D", "D", "expert")
        a3 == Aug(a2, "D", "D", "agent")
    IN  Aug(a3, "D", "D", "agent")

---------------------------------------------------------------------------
(* train(training) *)

train(s, training) ==
    LET m0 == [s.mode EXCEPT !.training = training, !.encoder = training,
                             !.actor = training, !.critic = training,
                             !.discriminator = training]
        m1 == IF cfg.variant = "cl" THEN [m0 EXCEPT !.CL = training] ELSE m0
    IN  [Ev(s, "train", "agent") EXCEPT !.mode = m1]

---------------------------------------------------------------------------
(* act(obs, step, eval_mode) *)

\* Faulty variant: the exploration window includes step = num_expl_steps.
Exploring_inclusive(step) == step <= cfg.num_expl_steps

\* if step < self.num_expl_steps: action.uniform_(-1.0, 1.0)
Exploring(step) == step < cfg.num_expl_steps

\* Faulty variant: the uniform override is not nested under the non-eval branch.
act_overrideInEval(s, obs, step, eval_mode, eps, noise, u) ==
    LET s1  == Ev(s, "forward", "encoder")
        z   == EncoderForward(s.net.encoder, obs, eps)
        s2  == Ev(s1, "forward", "actor")
        mu  == ActorMean(s.net.actor, z)
        smp == SampleNoClip(mu, noise)
        s3  == [s2 EXCEPT !.loc.mean = mu, !.loc.sample = smp]
        s4  == IF eval_mode THEN [s3 EXCEPT !.loc.action = mu]
               ELSE [Ev(s3, "sample", "action") EXCEPT !.loc.action = smp]
    IN  IF Exploring(step)
        THEN [Ev(s4, "uniform_", "action") EXCEPT !.loc.action = u]
        ELSE s4

act(s, obs, step, eval_mode, eps, noise, u) ==
    LET s1  == Ev(s, "forward", "encoder")
        z   == EncoderForward(s.net.encoder, obs, eps)
        s2  == Ev(s1, "forward", "actor")
        mu  == ActorMean(s.net.actor, z)
        smp == SampleNoClip(mu, noise)
        s3  == [s2 EXCEPT !.loc.mean = mu, !.loc.sample = smp]
    IN  IF eval_mode
        THEN [s3 EXCEPT !.loc.action = mu]
        ELSE LET s4 == Ev(s3, "sample", "action")
             IN  IF Exploring(step)
                 THEN [Ev(s4, "uniform_", "action") EXCEPT !.loc.action = u]
                 ELSE [s4 EXCEPT !.loc.action = smp]

---------------------------------------------------------------------------
(* update_critic(obs, action, reward, discount, next_obs, step) *)

\* Faulty variant: the critic optimizer also holds the target's parameters.
CriticStep_alsoTarget(s, target_Q) ==
    Then(s, LAMBDA x :
        [Ev(x, "step", "critic") EXCEPT
            !.net.critic = RAdd(@, RInt(RSign(RSub(target_Q, QValue(@))))),
            !.net.critic_target = RAdd(@, RInt(RSign(RSub(target_Q, QValue(@))))),
            !.opt.critic = @ + 1,
            !.loc.applied = @ \cup {<<"critic", x.grad.critic>>}])

\* self.critic_opt.step() on the loss mse(Q1, target_Q) + mse(Q2, target_Q):
\* the critic's output moves towards the bootstrap target.
CriticStep(s, target_Q) ==
    Then(s, LAMBDA x :
        IF x.grad.critic = {} THEN Ev(x, "step", "critic")
        ELSE [Ev(x, "step", "critic") EXCEPT
                 !.net.critic = RAdd(@, RInt(RSign(RSub(target_Q, QValue(@))))),
                 !.opt.critic = @ + 1,
                 !.loc.applied = @ \cup {<<"critic", x.grad.critic>>}])

\* Faulty variant: the encoder is stepped with the critic loss whatever
\* train_encoder_w_critic is.
EncoderTrainedWithCritic_always == cfg.variant \in Variants

\* The encoder is stepped with the critic loss: always in the bisimulation
\* agent, and in the contrastive agent when train_encoder_w_critic is set.
EncoderTrainedWithCritic == cfg.variant = "bisim" \/ cfg.train_encoder_w_critic

update_critic(s, reward, discount, step) ==
    LET a1 == Ev(NoGrad(s, TRUE), "forward", "actor")
        a2 == Ev(a1, "forward", "critic_target")
        target_V == RMin(QValue(s.net.critic_target), QValue(s.net.critic_target))
        target_Q == RAdd(reward.val, RMul(RInt(discount), target_V))
        a3 == [NoGrad(a2, FALSE) EXCEPT !.loc.target_V = target_V,
                                        !.loc.target_Q = target_Q,
                                        !.loc.critic_loss_reward = reward.src]
        a4 == Ev(a3, "forward", "critic")
        a5 == Log(a4, {"critic_target_q", "critic_q1", "critic_q2", "critic_loss"})
        a6 == IF EncoderTrainedWithCritic
              THEN ZeroGrad(ZeroGrad(a5, "encoder"), "critic")
              ELSE ZeroGrad(a5, "critic")
        a7 == Backward(a6, "critic_loss", {"critic"}, {"obs"})
        a8 == CriticStep(a7, target_Q)
    IN  IF EncoderTrainedWithCritic THEN OptStep(a8, "encoder", 1) ELSE a8

---------------------------------------------------------------------------
(* update_actor(obs, step) *)

\* Faulty variant: the critic optimizer is stepped on the actor loss as well.
update_actor_alsoCritic(s, step) ==
    LET a1 == Ev(s, "forward", "actor")
        a2 == Ev(a1, "forward", "critic")
        a3 == Backward(ZeroGrad(a2, "actor"), "actor_loss",
                       {"actor", "critic"}, {"actor_obs"})
        a4 == [OptStep(a3, "actor", 1) EXCEPT
                  !.net.critic = RAdd(@, RInt(1)), !.opt.critic = @ + 1]
    IN  Log(a4, {"actor_loss", "actor_logprob", "actor_ent"})

\* actor_loss = -min(Q1, Q2).mean() of the live critic at the actor's action.
update_actor(s, step) ==
    LET a1 == Ev(s, "forward", "actor")
        a2 == Ev(a1, "forward", "critic")
        a3 == Backward(ZeroGrad(a2, "actor"), "actor_loss",
                       {"actor", "critic"}, {"actor_obs"})
        a4 == OptStep(a3, "actor", 1)
    IN  Log(a4, {"actor_loss", "actor_logprob", "actor_ent"})

---------------------------------------------------------------------------
(* compute_reward(obs_a, next_a) *)

\* Faulty variant: the reward is not clamped at zero.
LeastSquareReward_unclamped(coef, d) ==
    RMul(coef, RSub(RInt(1), RMul(Rat(1, 4), RMul(RSub(d, RInt(1)), RSub(d, RInt(1))))))

\* reward_d_coef * clamp(1 - (1/4) * square(d - 1), min=0)
LeastSquareReward(coef, d) ==
    RMul(coef,
         RMax(RInt(0),
              RSub(RInt(1), RMul(Rat(1, 4), RMul(RSub(d, RInt(1)), RSub(d, RInt(1)))))))

RewardOf(d) ==
    IF cfg.GAN_loss = "least-square"
    THEN LeastSquareReward(RInt(cfg.reward_d_coef), RInt(d))
    ELSE RInt(BernoulliMode(d))

\* self.discriminator.train() at the end of compute_reward
RestoreDiscriminator(s) ==
    [Ev(s, "train", "discriminator") EXCEPT !.mode.discriminator = TRUE]

\* The gradient-free part of compute_reward: encode, score in eval mode,
\* turn the score into the reward, restore the discriminator's mode.
ScoreAndReward(s) ==
    LET a2 == IF cfg.from_dem THEN Ev(NoGrad(s, TRUE), "forward", "encoder")
              ELSE Ev(Ev(NoGrad(s, TRUE), "forward", "encoder"), "forward", "encoder")
        a3 == [Ev(a2, "eval", "discriminator") EXCEPT !.mode.discriminator = FALSE]
        d  == DiscScore(a3.net.discriminator)
        a4 == [Ev(a3, "forward", "discriminator") EXCEPT
                  !.loc.d = d, !.loc.d_mode_scoring = a3.mode.discriminator,
                  !.loc.reward = RewardOf(d)]
        a5 == Log(a4, {"reward_d"})
        a6 == RestoreDiscriminator(a5)
    IN  [NoGrad(a6, FALSE) EXCEPT !.loc.d_mode_post = a6.mode.discriminator]

compute_reward(s) ==
    LET a0 == [s EXCEPT !.loc.d_mode_pre = s.mode.discriminator]
        a1 == IF cfg.from_dem THEN Aug(a0, "D", "R", "agent")
              ELSE Aug(Aug(a0, "D", "R", "agent"), "D", "R", "agent")
    IN  Then(a1, ScoreAndReward)

---------------------------------------------------------------------------
(* update_discriminator(obs_a, next_a, obs_e, next_e) *)

\* Two batch sizes that tensor broadcasting can combine row by row.
Broadcastable(m, n) == m = n \/ m = 1 \/ n = 1

\* compute_discriminator_grad_penalty_LS differentiates the expert batch alone;
\* compute_discriminator_grad_penalty_bce interpolates the agent and expert
\* batches, alpha*agent_feat + (1-alpha)*expert_data, which raises when their
\* row counts cannot be broadcast.
GradPenalty(s) ==
    IF cfg.GAN_loss = "bce" /\ ~Broadcastable(s.loc.n.agent, s.loc.n.expert)
    THEN Raise(s, "RuntimeError")
    ELSE Ev(s, "grad_penalty", cfg.GAN_loss)

\* Faulty variant: the encoder optimizer is stepped along with the
\* discriminator's.
update_discriminator_alsoEncoder(s, g) ==
    LET a1 == Ev(Ev(s, "forward", "discriminator"), "forward", "discriminator")
        a2 == GradPenalty(a1)
    IN  Then(a2, LAMBDA x :
            Log(OptStep(OptStep(Backward(ZeroGrad(x, "discriminator"),
                                         "discriminator_loss", {"discriminator"}, {"D"}),
                                "discriminator", g),
                        "encoder", 1),
                {"discriminator_expert_loss", "discriminator_agent_loss",
                 "discriminator_loss", "discriminator_grad_pen"}))

update_discriminator(s, g) ==
    LET a1 == Ev(Ev(s, "forward", "discriminator"), "forward", "discriminator")
        a2 == GradPenalty(a1)
    IN  Then(a2, LAMBDA x :
            Log(OptStep(Backward(ZeroGrad(x, "discriminator"), "discriminator_loss",
                                 {"discriminator"}, {"D"}),
                        "discriminator", g),
                {"discriminator_expert_loss", "discriminator_agent_loss",
                 "discriminator_loss", "discriminator_grad_pen"}))

---------------------------------------------------------------------------
(* LailBisimAgent.update_encoder(obs, action, reward, discount, next_obs) *)

\* TransitionModel.forward: mu = self.mu(x) needs the layer the constructor
\* defines for a supported model_type.
TransitionModelForward(s) ==
    Then(s, LAMBDA x :
        IF attrs.mu = "unset" THEN Raise(x, "AttributeError")
        ELSE Ev(x, "forward", "transition_model"))

update_encoder(s) ==
    LET a1 == Aug(Aug(s, "Q", "Q", "agent"), "Q", "Q", "agent")
        a2 == Then(a1, LAMBDA x : Encode(x, "obs"))
        a3 == Then(a2, LAMBDA x : NoGrad(Encode(NoGrad(x, TRUE), "next_obs"), FALSE))
        a4 == NoGrad(TransitionModelForward(NoGrad(a3, TRUE)), FALSE)
        a5 == TransitionModelForward(a4)
    IN  Then(a5, LAMBDA x :
            LET b1 == Ev(x, "forward", "reward_decoder")
                b2 == ZeroGrad(ZeroGrad(ZeroGrad(b1, "encoder"), "transition_model"),
                               "reward_decoder")
                b3 == Backward(b2, "bisim_loss",
                               {"transition_model", "reward_decoder"},
                               {"obs", "next_obs"})
            IN  Log(OptStep(OptStep(OptStep(b3, "encoder", 1),
                                    "transition_model", 1),
                            "reward_decoder", 1),
                    {"encoder_loss", "model_loss", "reward_loss"}))

---------------------------------------------------------------------------
(* LailClAgent.update_CL(obs, obs_e_raw, obs_random, obs_e_raw_random,      *)
(*                       check_every_steps, step)                          *)

\* A diagnostic image dump that runs every check_every_steps steps (check_aug,
\* check_aug_CL): os.makedirs, a random choice of images and save_image, with
\* no exception handler around them.  check_aug picks the expert images by
\* indices drawn for the agent batch, obs_e[rand_idx[9:18]].
Dump(s, step, fn, type) ==
    Then(s, LAMBDA x :
        IF step % cfg.check_every_steps # 0 THEN x
        ELSE IF fn = "check_aug" /\ type = "learning_buffer" /\ x.loc.idx_high
                /\ x.loc.n.agent > x.loc.n.expert
             THEN Raise(x, "IndexError")
             ELSE IF x.loc.dump_fails = type THEN Raise(x, "OSError")
                  ELSE Ev(x, fn, type))

\* The batch the contrastive views are made from: obs for 'agent',
\* torch.cat([obs, obs_e_raw]) otherwise, which needs equal image sizes.  The
\* final else branch raises nothing and leaves anchor_to_aug unbound.
AnchorToAug(s) ==
    IF cfg.CL_data_type \notin CLDataTypes THEN Raise(s, "UnboundLocalError")
    ELSE IF cfg.CL_data_type # "agent" /\ s.loc.square.agent # s.loc.square.expert
         THEN Raise(s, "RuntimeError")
         ELSE s

\* augment(obs): image_one is augment1 of the batch when
\* add_aug_anchor_and_positive is set and the batch itself otherwise;
\* image_two is augment2 of the batch.
augment(s) ==
    Then(s, LAMBDA x : Then(AssertSquare(x, "agent"), LAMBDA y :
        IF attrs.augment2 = "unset" THEN Raise(y, "AttributeError")
        ELSE [Ev(y, "augment", "CL") EXCEPT
                 !.loc.aug.anchor = IF cfg.add_aug_anchor_and_positive
                                    THEN attrs.augment1 ELSE "none",
                 !.loc.aug.positive = attrs.augment2]))

\* Encode anchors and positives, score them, step the encoder and the
\* bilinear matrix W.
ContrastiveStep(s) ==
    LET a3 == Encode(s, "anchor")
        a4 == NoGrad(Encode(NoGrad(a3, TRUE), "positive"), FALSE)
        a5 == Ev(a4, "forward", "CL")
        b1 == ZeroGrad(ZeroGrad(a5, "encoder"), "CL")
        b2 == Backward(b1, "CL_loss", {"CL"}, {"anchor", "positive"})
        a6 == OptStep(b2, "encoder", 1)
        a7 == OptStep(a6, "CL", 1)
    IN  Log(a7, {"CL_loss"})

update_CL(s, step) ==
    LET a0 == Then(s, AnchorToAug)
        a1 == augment(a0)
        a2 == Dump(a1, step, "check_aug_CL", "checkaugs")
    IN  Then(a2, ContrastiveStep)

---------------------------------------------------------------------------
(* update(replay_iter, replay_iter_expert, ..., step) *)

\* Faulty variant: the cadence test is off by one step.
Skipped_offByOne(step) == (step + 1) % cfg.update_every_steps # 0

\* if step % self.update_every_steps != 0: return metrics
Skipped(step) == step % cfg.update_every_steps # 0

\* batch = next(<iterator>)
NextBatch(s, it) == [Ev(s, "next", it) EXCEPT !.iters[it] = @ + 1]

\* obs, action, reward_a, discount, next_obs = utils.to_torch(batch, device)
AgentBatch(s, b) ==
    [NextBatch(s, "agent") EXCEPT !.loc.reward_a = b.reward_a,
                                  !.loc.discount = b.discount,
                                  !.loc.square.agent = b.square_agent,
                                  !.loc.n.agent = b.n_agent]

\* obs_e_raw, action_e, _, _, next_obs_e_raw = utils.to_torch(batch_expert, device)
ExpertBatch(s, b) ==
    [NextBatch(s, "expert") EXCEPT !.loc.square.expert = b.square_expert,
                                   !.loc.n.expert = b.n_expert]

\* Faulty variant: the random batches are drawn only when the contrastive
\* update uses them.
RandomBatches_onlyForAll(s) ==
    IF cfg.CL_data_type = "all"
    THEN NextBatch(NextBatch(s, "random"), "expert_random")
    ELSE s

\* batch_agent_random = next(replay_iter_random);
\* batch_expert_random = next(replay_iter_expert_random)
RandomBatches(s) == NextBatch(NextBatch(s, "random"), "expert_random")

\* What the call will meet outside the agent: whether an image dump fails,
\* and whether the permutation drawn by check_aug indexes past the expert batch.
Outside(s, b) ==
    [s EXCEPT !.loc.dump_fails = b.dump_fails, !.loc.idx_high = b.idx_high]

\* with torch.no_grad(): the four encodings that feed the discriminator.
EncodeNoGrad(s) ==
    NoGrad(Encode(Encode(Encode(Encode(NoGrad(s, TRUE), "D"), "D"), "D"), "D"), FALSE)

\* The four augmentations and the four gradient-free encodings that feed the
\* discriminator.
EncodeForDiscriminator(s) ==
    LET a1 == AugForDiscriminator(s)
    IN  Then(a1, EncodeNoGrad)

\* Faulty variant: the reward is computed before the discriminator is stepped.
DiscriminatorAndReward_rewardFirst(s, g) ==
    LET a1 == Then(compute_reward(Enter(s, "compute_reward")),
                   LAMBDA y : Leave(y, "compute_reward"))
    IN  Then(a1, LAMBDA x :
            Then(update_discriminator(Enter(x, "update_discriminator"), g),
                 LAMBDA y : Leave(y, "update_discriminator")))

\* Discriminator step, then the reward of the agent batch.
DiscriminatorAndReward(s, g) ==
    LET a1 == Enter(s, "update_discriminator")
        a2 == Then(update_discriminator(a1, g),
                   LAMBDA x : Leave(x, "update_discriminator"))
    IN  Then(a2, LAMBDA x :
            Then(compute_reward(Enter(x, "compute_reward")),
                 LAMBDA y : Leave(y, "compute_reward")))

\* Re-augment and re-encode the agent batch for the critic and the actor.
EncodeForCritic(s) ==
    LET a1 == Aug(Aug(s, "Q", "Q", "agent"), "Q", "Q", "agent")
    IN  Then(a1, LAMBDA x :
            NoGrad(Encode(NoGrad(Encode(x, "obs"), TRUE), "next_obs"), FALSE))

\* if self.use_tb: metrics['batch_reward'] = reward_a.mean().item()
LogBatchReward(s) == Log(s, {"batch_reward"})

\* Faulty variant: the critic is trained on the batch's extrinsic reward.
CriticReward_extrinsic(s) == [val |-> RInt(s.loc.reward_a), src |-> "reward_a"]

\* The reward handed to update_critic, with the variable it comes from: the
\* local `reward` that compute_reward returned, not the batch's `reward_a`.
CriticReward(s) == [val |-> s.loc.reward, src |-> "compute_reward"]

\* utils.soft_update_params(self.critic, self.critic_target, tau)
SoftUpdate(s) ==
    [Ev(s, "soft_update", "critic_target") EXCEPT
        !.loc.live_at_soft = s.net.critic,
        !.loc.target_before_soft = s.net.critic_target,
        !.net.critic_target =
            SoftUpdateValue(s.net.critic, s.net.critic_target, cfg.critic_target_tau)]

\* Faulty variant: the target is soft-updated before the critic and
\* actor steps.
CriticActorTarget_targetFirst(s, step) ==
    LET a0 == SoftUpdate(s)
        a1 == Enter(a0, "update_critic")
        a2 == Leave(update_critic(a1, CriticReward(a1), a1.loc.discount, step),
                    "update_critic")
        a3 == Enter(Detach(a2, "obs", "actor_obs"), "update_actor")
    IN  Leave(update_actor(a3, step), "update_actor")

\* update critic; update actor; update critic target
CriticActorTarget(s, step) ==
    LET a1 == Enter(s, "update_critic")
        a2 == Leave(update_critic(a1, CriticReward(a1), a1.loc.discount, step),
                    "update_critic")
        a3 == Enter(Detach(a2, "obs", "actor_obs"), "update_actor")
        a4 == Leave(update_actor(a3, step), "update_actor")
    IN  SoftUpdate(a4)

\* LailBisimAgent.update
update_bisim(s, step, b, g) ==
    IF Skipped(step) THEN s
    ELSE LET a1 == AgentBatch(Outside(s, b), b)
             a2 == ExpertBatch(a1, b)
             a3 == EncodeForDiscriminator(a2)
             a4 == Then(a3, LAMBDA x : DiscriminatorAndReward(x, g))
             a5 == Then(a4, EncodeForCritic)
             a6 == Then(a5, LogBatchReward)
         IN  Then(a6, LAMBDA x : CriticActorTarget(x, step))

\* if step % self.check_every_steps == 0: self.check_aug(...)
CheckAug(s, step, type) == Dump(s, step, "check_aug", type)

\* LailClAgent.update
update_cl(s, step, b, g) ==
    IF Skipped(step) THEN s
    ELSE LET a1 == AgentBatch(Outside(s, b), b)
             a2 == ExpertBatch(a1, b)
             a4 == RandomBatches(a2)
             a5 == CheckAug(a4, step, "random_buffer")
             a6 == Then(a5, LAMBDA x :
                      Then(update_CL(Enter(x, "update_CL"), step),
                           LAMBDA y : Leave(y, "update_CL")))
             a7 == AugForDiscriminator(a6)
             a8 == CheckAug(a7, step, "learning_buffer")
             a9 == Then(a8, EncodeNoGrad)
             a10 == Then(a9, LAMBDA x : DiscriminatorAndReward(x, g))
             a11 == Then(a10, EncodeForCritic)
             a12 == Then(a11, LogBatchReward)
         IN  Then(a12, LAMBDA x : CriticActorTarget(x, step))

update(s, step, b, g) ==
    IF cfg.variant = "bisim" THEN update_bisim(s, step, b, g)
    ELSE update_cl(s, step, b, g)

---------------------------------------------------------------------------
(* The calls a training script makes on the agent *)

Obs == {0, 1}
Noise == {-1, 1}
Uniform == {-ActScale, ActScale - 1}
\* What one call of update draws: the agent batch's reward and discount, and
\* for the two buffers whether the images are square and how many rows a
\* batch has; dump_fails names the image dump that fails.
Batches ==
    [reward_a : {0, 1}, discount : {0, 1},
     square_agent : {TRUE}, square_expert : {TRUE},
     n_agent : {2}, n_expert : {2},
     dump_fails : {"none"}, idx_high : {FALSE}]

\* The random draws a call of act consumes: the latent's noise only under a
\* stochastic encoder, the policy noise only when dist.sample runs, the
\* uniform draw only when action.uniform_ runs.
EncoderDraws == IF cfg.variant = "cl" /\ cfg.stochastic_encoder THEN Noise ELSE {0}
SampleDraws(step, eval_mode) ==
    IF Count(act(Begin, 0, step, eval_mode, 0, 0, 0).trace, "sample", "action") > 0
    THEN Noise ELSE {0}
UniformDraws(step, eval_mode) ==
    IF Count(act(Begin, 0, step, eval_mode, 0, 0, 0).trace, "uniform_", "action") > 0
    THEN Uniform ELSE {0}

\* What update hands back: its metrics dict, or the exception it raised.
Returned(s) ==
    IF s.exc = "none" THEN [NoRet EXCEPT !.kind = "metrics", !.metrics = s.metrics]
    ELSE [NoRet EXCEPT !.kind = "error", !.exc = s.exc]

Commit(s) ==
    /\ net' = s.net
    /\ opt' = s.opt
    /\ mode' = s.mode
    /\ iters' = s.iters
    /\ grad' = s.grad
    /\ trace' = s.trace
    /\ loc' = s.loc
    /\ ncalls' = ncalls + 1
    /\ UNCHANGED <<cfg, fx, attrs>>

Act ==
    /\ ncalls < MaxCalls
    /\ Constructed
    /\ \E obs \in Obs, step \in Steps, eval_mode \in BOOLEAN :
       \E eps \in EncoderDraws, noise \in SampleDraws(step, eval_mode),
          u \in UniformDraws(step, eval_mode) :
          \E s \in {act(Begin, obs, step, eval_mode, eps, noise, u)} :
            /\ Commit(s)
            /\ call' = [op |-> "act", step |-> step, eval_mode |-> eval_mode,
                        training |-> TRUE, obs |-> obs, eps |-> eps,
                        noise |-> noise, u |-> u]
            /\ ret' = [NoRet EXCEPT !.kind = "action", !.action = s.loc.action]

\* One call of update, with its step drawn from St, its batches from B and
\* the direction of the discriminator's gradient from G.
UpdateOn(St, B, G) ==
    /\ ncalls < MaxCalls
    /\ Constructed
    /\ \E step \in St, b \in B, g \in G :
          \E s \in {update(Begin, step, b, g)} :
            /\ Commit(s)
            /\ call' = [NoCall EXCEPT !.op = "update", !.step = step]
            /\ ret' = Returned(s)

Update == UpdateOn(Steps, Batches, Grads)

Train ==
    /\ ncalls < MaxCalls
    /\ Constructed
    /\ \E training \in BOOLEAN :
          \E s \in {train(Begin, training)} :
            /\ Commit(s)
            /\ call' = [NoCall EXCEPT !.op = "train", !.training = training]
            /\ ret' = NoRet

Next == Act \/ Update \/ Train

Spec == Init /\ [][Next]_vars

---------------------------------------------------------------------------
(* Agents built from every value of the constructors' string options, the  *)
(* unsupported ones included, and the updates run on them                  *)

BisimOptionConfigs ==
    [variant : {"bisim"}, from_dem : BOOLEAN, GAN_loss : {"least-square"},
     use_tb : {TRUE}, critic_target_tau : {<<1, 4>>},
     update_every_steps : {2}, num_expl_steps : {2},
     check_every_steps : {4}, reward_d_coef : {1},
     stochastic_encoder : {FALSE}, train_encoder_w_critic : {TRUE},
     transition_model_type : TransitionModelTypes \cup {Unsupported},
     CL_data_type : {"all"}, add_aug_anchor_and_positive : {FALSE},
     aug_type : {"full"}, apply_aug : {"everywhere"},
     depth_flag : {FALSE}, segm_flag : {FALSE}]

ClOptionConfigs ==
    [variant : {"cl"}, from_dem : BOOLEAN, GAN_loss : {"least-square"},
     use_tb : {TRUE}, critic_target_tau : {<<1, 4>>},
     update_every_steps : {2}, num_expl_steps : {2},
     check_every_steps : {4}, reward_d_coef : {1},
     stochastic_encoder : {FALSE}, train_encoder_w_critic : {TRUE},
     transition_model_type : {"probabilistic"},
     CL_data_type : CLDataTypes, add_aug_anchor_and_positive : BOOLEAN,
     aug_type : AugTypes \cup {Unsupported}, apply_aug : ApplyAugModes,
     depth_flag : BOOLEAN, segm_flag : BOOLEAN]

OptionConfigs == BisimOptionConfigs \cup ClOptionConfigs

\* Well-formed batches of one reward and discount.
PlainBatches == {b \in Batches : b.reward_a = 1 /\ b.discount = 1}

InitOptions == InitWith(OptionConfigs)

UpdateOptions == UpdateOn(Steps, PlainBatches, {1})

NextOptions == UpdateOptions

SpecOptions == InitOptions /\ [][NextOptions]_vars

---------------------------------------------------------------------------
(* Contrastive agents whose diagnostic image dumps may fail *)

\* The image dumps of LailClAgent, by the directory suffix they write to.
ImageDumps == {"random_buffer", "checkaugs", "learning_buffer"}

DumpConfigs ==
    {c \in ClOptionConfigs :
        /\ c.aug_type = "full" /\ c.apply_aug = "everywhere"
        /\ ~c.depth_flag /\ ~c.segm_flag /\ ~c.add_aug_anchor_and_positive}

\* Well-formed batches; at most one of the call's image dumps fails.
DumpBatches ==
    {[b EXCEPT !.dump_fails = f] : b \in PlainBatches, f \in ImageDumps \cup {"none"}}

InitDumps == InitWith(DumpConfigs)

UpdateDumps == UpdateOn(Steps, DumpBatches, {1})

NextDumps == UpdateDumps

SpecDumps == InitDumps /\ [][NextDumps]_vars

---------------------------------------------------------------------------
(* Both agents, every augmentation routing, on batches whose images may be *)
(* non-square                                                              *)

SquareConfigs ==
    {c \in BisimOptionConfigs : c.transition_model_type = "probabilistic"}
    \cup {c \in ClOptionConfigs :
            /\ c.aug_type = "full" /\ ~c.from_dem
            /\ ~c.depth_flag /\ ~c.segm_flag /\ ~c.add_aug_anchor_and_positive}

\* The images of the agent's buffers and of the expert's buffers are each
\* square (H = W) or not.
SquareBatches ==
    {[b EXCEPT !.square_agent = a, !.square_expert = x] :
        b \in PlainBatches, a \in BOOLEAN, x \in BOOLEAN}

InitSquare == InitWith(SquareConfigs)

UpdateSquare == UpdateOn(Steps, SquareBatches, {1})

NextSquare == UpdateSquare

SpecSquare == InitSquare /\ [][NextSquare]_vars

---------------------------------------------------------------------------
(* Both agents, both discriminator losses, on agent and expert batches of  *)
(* independent sizes                                                       *)

GANLosses == {"least-square", "bce"}

SizeConfigs ==
    {[c EXCEPT !.GAN_loss = l] :
        c \in {k \in SquareConfigs : k.apply_aug = "everywhere"}, l \in GANLosses}

BatchSizes == 1..MaxBatch

\* The agent batch and the expert batch each have their own number of rows;
\* when the agent batch is the larger, the permutation check_aug draws over
\* the agent rows may or may not index past the expert rows.
SizeBatches ==
    {s \in {[b EXCEPT !.n_agent = m, !.n_expert = n, !.idx_high = h] :
                b \in PlainBatches, m \in BatchSizes, n \in BatchSizes, h \in BOOLEAN} :
        s.idx_high => s.n_agent > s.n_expert}

ExecutedSteps == {st \in Steps : ~Skipped(st)}

InitSizes == InitWith(SizeConfigs)

UpdateSizes == UpdateOn(ExecutedSteps, SizeBatches, {1})

NextSizes == UpdateSizes

SpecSizes == InitSizes /\ [][NextSizes]_vars

---------------------------------------------------------------------------
(* The anchor and positive batches that update_CL assembles, row by row *)

\* A batch of n images drawn from buffer buf: row i is the i-th image.
Rows(buf, n) == [i \in 1..n |-> [buf |-> buf, row |-> i, view |-> "raw"]]

\* x[rand_idx]: the rows of x picked by an index sequence; an index past the
\* last row raises IndexError.
InRange(x, idx) == \A i \in DOMAIN idx : idx[i] \in DOMAIN x
Index(x, idx) == [i \in DOMAIN idx |-> x[idx[i]]]

\* One of the two images augment returns for a batch: row i is a view of row i.
View(x, v) == [i \in DOMAIN x |-> [x[i] EXCEPT !.view = v]]

\* torch.randperm(n)
Perms(n) == {p \in [1..n -> 1..n] : \A i, j \in 1..n : p[i] = p[j] => i = j}

\* The anchors and positives update_CL encodes, from the four batches and the
\* permutation it draws.
AnchorsAndPositives(type, obs, obs_e_raw, obs_random, obs_e_raw_random, rand_idx) ==
    LET anchor_to_aug == IF type = "agent" THEN obs ELSE obs \o obs_e_raw
        image_one == View(anchor_to_aug, "one")
        image_two == View(anchor_to_aug, "two")
    IN  IF type # "all"
        THEN [exc |-> "none", anchors |-> image_one, positives |-> image_two]
        ELSE IF ~InRange(obs_e_raw_random, rand_idx)
             THEN [exc |-> "IndexError", anchors |-> <<>>, positives |-> <<>>]
             ELSE [exc |-> "none",
                   anchors |-> obs_random \o obs_e_raw_random \o image_one,
                   positives |-> Index(obs_e_raw_random, rand_idx)
                                 \o Index(obs_random, rand_idx) \o image_two]

PairConfigs == {c \in DumpConfigs : ~c.from_dem}

\* The sizes of the four batches and the permutation of the random rows.
PairInputs ==
    UNION {[f : {"update_CL"}, done : {FALSE},
            n_agent : BatchSizes, n_expert : BatchSizes,
            n_random : {r}, n_expert_random : BatchSizes, rand_idx : Perms(r),
            exc : {"none"}, anchors : {<<>>}, positives : {<<>>}] : r \in BatchSizes}

InitPairs == InitAgent(PairConfigs) /\ fx \in PairInputs

AssemblePairs ==
    /\ fx.f = "update_CL" /\ ~fx.done
    /\ LET r == AnchorsAndPositives(cfg.CL_data_type,
                    Rows("agent", fx.n_agent), Rows("expert", fx.n_expert),
                    Rows("random", fx.n_random),
                    Rows("expert_random", fx.n_expert_random), fx.rand_idx)
       IN  fx' = [fx EXCEPT !.done = TRUE, !.exc = r.exc,
                            !.anchors = r.anchors, !.positives = r.positives]
    /\ UNCHANGED <<cfg, net, opt, mode, iters, call, ret, trace, loc, ncalls, attrs, grad>>

NextPairs == AssemblePairs

SpecPairs == InitPairs /\ [][NextPairs]_vars

---------------------------------------------------------------------------
(* The least-square reward of compute_reward, over scores and coefficients *)

\* Discriminator scores in steps of 1/4, coefficients in steps of 1/2 (the
\* negative ones included).
Scores == {Rat(k, 4) : k \in (-4 * MaxScore)..(4 * MaxScore)}
Coefs == {Rat(k, 2) : k \in -2..(2 * MaxCoef)}

RewardInputs ==
    [f : {"compute_reward"}, done : {FALSE}, coef : Coefs, d : Scores,
     out : {RInt(0)}]

InitReward ==
    /\ InitAgent({c \in PairConfigs : c.CL_data_type = "all"})
    /\ fx \in RewardInputs

ComputeReward ==
    /\ fx.f = "compute_reward" /\ ~fx.done
    /\ fx' = [fx EXCEPT !.done = TRUE, !.out = LeastSquareReward(fx.coef, fx.d)]
    /\ UNCHANGED <<cfg, net, opt, mode, iters, call, ret, trace, loc, ncalls, attrs, grad>>

NextReward == ComputeReward

SpecReward == InitReward /\ [][NextReward]_vars

---------------------------------------------------------------------------
(* CL.compute_logits(z_a, z_pos), over small integer feature batches *)

\* The inner product of two vectors of the same length.
RECURSIVE Dot(_, _)
Dot(u, v) == IF u = <<>> THEN 0 ELSE Head(u) * Head(v) + Dot(Tail(u), Tail(v))

\* M.T
Transpose(M) == [j \in DOMAIN M[1] |-> [i \in DOMAIN M |-> M[i][j]]]

\* torch.matmul(A, M)
MatMul(A, M) ==
    [i \in DOMAIN A |-> [j \in DOMAIN M[1] |-> Dot(A[i], Transpose(M)[j])]]

\* torch.max(row): the largest entry of a row.
RowMax(row) ==
    CHOOSE m \in {row[j] : j \in DOMAIN row} : \A j \in DOMAIN row : row[j] <= m

\* The largest entry of the whole matrix.
GlobalMax(M) ==
    CHOOSE m \in {M[i][j] : i \in DOMAIN M, j \in DOMAIN M[1]} :
        \A i \in DOMAIN M, j \in DOMAIN M[1] : M[i][j] <= m

\* Faulty variant: the maximum of the whole matrix is subtracted from every
\* row.
compute_logits_globalMax(W, z_a, z_pos) ==
    LET Wz == MatMul(W, Transpose(z_pos))
        logits == MatMul(z_a, Wz)
    IN  [i \in DOMAIN logits |->
            [j \in DOMAIN logits[i] |-> logits[i][j] - GlobalMax(logits)]]

\* Wz = matmul(W, z_pos.T); logits = matmul(z_a, Wz);
\* logits = logits - torch.max(logits, 1)[0][:, None]
compute_logits(W, z_a, z_pos) ==
    LET Wz == MatMul(W, Transpose(z_pos))
        logits == MatMul(z_a, Wz)
    IN  [i \in DOMAIN logits |->
            [j \in DOMAIN logits[i] |-> logits[i][j] - RowMax(logits[i])]]

\* Feature vectors of feature_dim 2 with entries -1 and 1; batches of up to
\* MaxRows rows.
Features == 1..2
FeatureVectors == [Features -> {-1, 1}]
FeatureBatches(B) == [1..B -> FeatureVectors]

LogitsInputs ==
    UNION {[f : {"compute_logits"}, done : {FALSE}, W : [Features -> FeatureVectors],
            z_a : FeatureBatches(B), z_pos : FeatureBatches(B),
            logits : {<<>>}] : B \in 1..MaxRows}

InitLogits ==
    /\ InitAgent({c \in PairConfigs : c.CL_data_type = "all"})
    /\ fx \in LogitsInputs

ComputeLogits ==
    /\ fx.f = "compute_logits" /\ ~fx.done
    /\ fx' = [fx EXCEPT !.done = TRUE,
                         !.logits = compute_logits(fx.W, fx.z_a, fx.z_pos)]
    /\ UNCHANGED <<cfg, net, opt, mode, iters, call, ret, trace, loc, ncalls, attrs, grad>>

NextLogits == ComputeLogits

SpecLogits == InitLogits /\ [][NextLogits]_vars

---------------------------------------------------------------------------
(* Properties *)

\* The last call was update, at a step the update cadence executes.
ExecutedUpdate == call.op = "update" /\ call.step % cfg.update_every_steps = 0

\* The last call was update, at a step the update cadence skips.
SkippedUpdate == call.op = "update" /\ call.step % cfg.update_every_steps # 0

\* The last call was an executed update that returned its metrics.
CompletedUpdate == ExecutedUpdate /\ ret.kind = "metrics"

\* The last call was an executed update that raised.
FailedUpdate == ExecutedUpdate /\ ret.kind = "error"

\* (1 - tau) * target + tau * live
Polyak(target, live, tau) ==
    Rat((tau[2] - tau[1]) * target[1] * live[2] + tau[1] * live[1] * target[2],
        tau[2] * target[2] * live[2])

\* C1: an update call at a step that is not a multiple of update_every_steps
\* returns an empty metrics mapping and changes nothing: no network
\* parameter, no optimizer state, no critic-target parameter, no train/eval
\* mode, and it draws no batch from any buffer iterator (it executes no
\* sub-step at all).
C1_SkippedUpdateChangesNothing ==
    [][SkippedUpdate' =>
          /\ ret'.kind = "metrics" /\ ret'.metrics = {}
          /\ net' = net /\ opt' = opt /\ mode' = mode
          /\ iters' = iters
          /\ trace' = <<>>]_vars

\* C1 witness: a skipped update call made after an executed one, so that
\* there are optimizer state and drawn batches to preserve.
C1_Witness ==
    /\ SkippedUpdate
    /\ opt.critic = 1 /\ iters.agent = 1 /\ ret.metrics = {}

\* C2: in every executed update call of the bisimulation agent the joint
\* bisimulation step (one step of the encoder, transition-model and
\* reward-decoder optimizers together) is performed exactly once, after the
\* reward is computed and before the critic update.
C2_BisimStepOnceBetweenRewardAndCritic ==
    (ExecutedUpdate /\ cfg.variant = "bisim") =>
        /\ Count(trace, "step", "transition_model") = 1
        /\ Count(trace, "step", "reward_decoder") = 1
        /\ At(trace, "call", "compute_reward") < At(trace, "step", "transition_model")
        /\ At(trace, "step", "reward_decoder") < At(trace, "call", "update_critic")

\* C3: in every executed update call the reward in the critic's bootstrap
\* target is the one compute_reward derived from the discriminator's score;
\* the extrinsic reward of the agent batch reaches only the batch_reward
\* metric.
C3_CriticRewardIsDiscriminatorReward ==
    ExecutedUpdate =>
        /\ loc.critic_loss_reward = "compute_reward"
        /\ loc.reward = RewardOf(DiscScore(net.discriminator))
        /\ loc.target_Q = RAdd(loc.reward, RMul(RInt(loc.discount), loc.target_V))
        /\ ("batch_reward" \in ret.metrics) = cfg.use_tb

\* C3 witness: an executed update whose extrinsic reward differs from the
\* discriminator's reward, and whose bootstrap term is not zero.
C3_Witness ==
    /\ ExecutedUpdate
    /\ RInt(loc.reward_a) # loc.reward
    /\ loc.discount = 1 /\ loc.target_V # RInt(0)

\* C4: an executed update call soft-updates the critic target exactly once,
\* to (1-tau)*target + tau*live with the live critic as its critic step of
\* this call left it, after both the critic step and the actor step; a
\* skipped update call performs no soft update.
C4_SoftUpdateOncePerExecutedUpdate ==
    [][(call'.op = "update" /\ ncalls' = ncalls + 1) =>
          IF ExecutedUpdate'
          THEN /\ Count(trace', "soft_update", "critic_target") = 1
               /\ Count(trace', "step", "critic") = 1
               /\ Count(trace', "step", "actor") = 1
               /\ At(trace', "step", "critic") < At(trace', "soft_update", "critic_target")
               /\ At(trace', "step", "actor") < At(trace', "soft_update", "critic_target")
               /\ net'.critic_target =
                      Polyak(net.critic_target, net'.critic, cfg.critic_target_tau)
          ELSE /\ Count(trace', "soft_update", "critic_target") = 0
               /\ net'.critic_target = net.critic_target]_vars

\* C4 witness: an executed update that moved the live critic away from a
\* target which had already left its initial value, under tau < 1.
C4_Witness ==
    /\ ExecutedUpdate
    /\ opt.critic = 2
    /\ cfg.critic_target_tau # RInt(1)
    /\ net.critic_target # net.critic
    /\ loc.target_before_soft # RInt(0)
    /\ loc.live_at_soft # loc.target_before_soft

\* C5: across any sequence of act, train and update calls the critic target
\* changes only by the soft update that ends an executed update call (no
\* optimizer step moves it), and it is evaluated only with gradients
\* disabled, for the bootstrap target.
C5_TargetChangesOnlyBySoftUpdate ==
    [][/\ net'.critic_target # net.critic_target =>
            /\ ExecutedUpdate'
            /\ trace'[Len(trace')].op = "soft_update"
            /\ net'.critic_target =
                   Polyak(net.critic_target, net'.critic, cfg.critic_target_tau)
       /\ \A i \in DOMAIN trace' :
            trace'[i].arg = "critic_target" =>
                \/ trace'[i].op = "soft_update"
                \/ trace'[i].op = "forward" /\ trace'[i].no_grad]_vars

\* C5 witness: an act call made after an executed update that changed both
\* the live critic and the target.
C5_Witness ==
    /\ call.op = "act"
    /\ opt.critic = 1 /\ net.critic # RInt(0)
    /\ net.critic_target # RInt(0)
    /\ net.critic_target # net.critic

\* C6 (as stated): for every constructor configuration update returns an
\* empty metrics mapping exactly when step % update_every_steps != 0, and an
\* executed call returns a mapping with named loss components.
C6_EmptyMetricsIffSkipped ==
    call.op = "update" =>
        /\ (ret.metrics = {}) = (call.step % cfg.update_every_steps # 0)
        /\ ExecutedUpdate =>
               {"critic_loss", "actor_loss", "discriminator_loss"} \subseteq ret.metrics

\* C6 (amended): update returns an empty metrics mapping exactly when the
\* call is skipped or the agent was built with use_tb false; an executed
\* call of an agent built with use_tb true returns the named loss components.
C6_EmptyMetricsIffSkippedOrNoLogging ==
    call.op = "update" =>
        /\ (ret.metrics = {}) = (call.step % cfg.update_every_steps # 0 \/ ~cfg.use_tb)
        /\ (ExecutedUpdate /\ cfg.use_tb) =>
               {"critic_loss", "actor_loss", "discriminator_loss"} \subseteq ret.metrics

\* C6 witness: an executed update (optimizer steps taken) that returned an
\* empty mapping.
C6_Witness ==
    /\ ExecutedUpdate
    /\ ~cfg.use_tb
    /\ opt.critic > 0 /\ opt.actor > 0 /\ opt.discriminator > 0
    /\ ret.metrics = {}

\* C7: after one executed update call of the bisimulation agent with metric
\* logging enabled, the returned mapping has a key for each of the critic,
\* actor, discriminator, encoder, model and reward losses.
C7_BisimMetricsKeys ==
    (ExecutedUpdate /\ cfg.variant = "bisim" /\ cfg.use_tb) =>
        {"critic_loss", "actor_loss", "discriminator_loss",
         "encoder_loss", "model_loss", "reward_loss"} \subseteq ret.metrics

\* C8: act in non-eval mode at a step below num_expl_steps returns the
\* uniform draw, within [-1,1] and whatever the policy and encoder weights
\* are; at a step from num_expl_steps on it returns the policy's unclipped
\* sample and the override does not run.
C8_ExplorationOverride ==
    (call.op = "act" /\ ~call.eval_mode) =>
        IF call.step < cfg.num_expl_steps
        THEN /\ Count(trace, "uniform_", "action") = 1
             /\ ret.action = call.u
             /\ ret.action >= -ActScale /\ ret.action <= ActScale
        ELSE /\ Count(trace, "uniform_", "action") = 0
             /\ ret.action =
                    Clamp(ActorMean(net.actor,
                                    EncoderForward(net.encoder, call.obs, call.eps))
                          + call.noise, -ActScale, ActScale)

\* C8 witness: an exploration-window act after the weights have been trained,
\* returning a uniform draw that is neither the policy's mean nor its sample.
C8_Witness ==
    /\ call.op = "act" /\ ~call.eval_mode
    /\ call.step < cfg.num_expl_steps
    /\ opt.actor > 0 /\ opt.encoder > 0
    /\ ret.action = call.u
    /\ ret.action # loc.mean /\ ret.action # loc.sample

\* C9 (as stated): act in eval mode is deterministic for every configuration
\* and every step: two calls with the same observation and unchanged weights
\* return the same action, the policy mean, and the uniform override never
\* runs in eval mode.
C9_EvalActDeterministic ==
    [][(call'.op = "act" /\ call'.eval_mode /\ ncalls' = ncalls + 1) =>
          /\ Count(trace', "uniform_", "action") = 0
          /\ ret'.action = loc'.mean
          /\ (call.op = "act" /\ call.eval_mode /\ call.obs = call'.obs /\ net' = net)
                 => ret'.action = ret.action]_vars

\* C9 (amended): act in eval mode returns the policy mean at the latent the
\* encoder produced in that call and never runs the uniform override, at
\* every step; two calls with the same observation and unchanged weights
\* return the same action when the encoder is not stochastic (a stochastic
\* encoder draws a new latent on every call).
C9_EvalActDeterministicGivenLatent ==
    [][(call'.op = "act" /\ call'.eval_mode /\ ncalls' = ncalls + 1) =>
          /\ Count(trace', "uniform_", "action") = 0
          /\ Count(trace', "sample", "action") = 0
          /\ ret'.action =
                 ActorMean(net'.actor, EncoderForward(net'.encoder, call'.obs, call'.eps))
          /\ (/\ call.op = "act" /\ call.eval_mode /\ call.obs = call'.obs /\ net' = net
              /\ ~(cfg.variant = "cl" /\ cfg.stochastic_encoder))
                 => ret'.action = ret.action]_vars

\* C9 witness: a second eval-mode act inside the exploration window, on
\* trained weights, by an agent whose encoder is not stochastic.
C9_Witness ==
    /\ call.op = "act" /\ call.eval_mode
    /\ call.step < cfg.num_expl_steps
    /\ ~(cfg.variant = "cl" /\ cfg.stochastic_encoder)
    /\ opt.actor > 0
    /\ ret.action = loc.mean /\ ret.action # 0

\* C10: compute_reward scores with the discriminator in evaluation mode and
\* leaves the discriminator in the train/eval mode it had before the call,
\* whichever that was; it changes no parameter and no optimizer state.
C10_ComputeRewardRestoresMode ==
    ExecutedUpdate =>
        /\ loc.d_mode_scoring = FALSE
        /\ loc.d_mode_post = loc.d_mode_pre

\* C11: a bisimulation agent configured with a transition_model_type other
\* than 'deterministic' or 'probabilistic' never completes an executed update:
\* its construction or its first executed update ends in an error.
C11_UnsupportedTransitionModelNeverUpdates ==
    (cfg.variant = "bisim" /\ cfg.transition_model_type \notin TransitionModelTypes)
        => ~CompletedUpdate

\* C12: a contrastive agent configured with an aug_type other than
\* 'brightness', 'color' or 'full' never completes an executed update, whichever
\* of the five apply_aug modes it is given: its construction or its first
\* executed update ends in an error.
C12_UnsupportedAugTypeNeverUpdates ==
    (cfg.variant = "cl" /\ cfg.aug_type \notin AugTypes /\ cfg.apply_aug \in ApplyAugModes)
        => ~CompletedUpdate

\* The augmenters the last executed update applied at its three use-sites:
\* the discriminator input (the reward computation included), the
\* critic/actor input, and the contrastive views.
AtDiscriminator(k) == loc.aug.D = k /\ loc.aug.R = k
AtCriticActor(k) == loc.aug.Q = k
AtContrastive(k) ==
    /\ loc.aug.positive = k
    /\ loc.aug.anchor = IF cfg.add_aug_anchor_and_positive THEN k ELSE "none"

\* C13: when depth_flag or segm_flag is set the routing is 'nowhere' whatever
\* apply_aug was given: an executed update applies the plain random shift at
\* the discriminator input, at the critic/actor input and to the contrastive
\* views.
C13_DepthSegmForceRandomShift ==
    (cfg.variant = "cl" /\ (cfg.depth_flag \/ cfg.segm_flag) /\ CompletedUpdate)
        => /\ attrs.apply_aug = "nowhere"
           /\ AtDiscriminator("RandomShiftsAug")
           /\ AtCriticActor("RandomShiftsAug")
           /\ AtContrastive("RandomShiftsAug")

\* C14: the apply_aug mode given to the constructor fixes the augmenter of
\* each use-site of an executed update.  'everywhere': the photometric stack at
\* the discriminator input (reward computation included), the critic/actor
\* input and the contrastive views; 'nowhere': the random shift at all three;
\* 'CL-only': photometric for the contrastive views only; 'CL-D': photometric
\* for the contrastive views and the discriminator, the shift for critic and
\* actor; 'CL-Q': photometric for the contrastive views and critic/actor, the
\* shift for the discriminator.
C14_RoutingPerMode ==
    (cfg.variant = "cl" /\ CompletedUpdate) =>
        LET P == "photometric"
            S == "RandomShiftsAug"
        IN  CASE cfg.apply_aug = "everywhere" ->
                   AtDiscriminator(P) /\ AtCriticActor(P) /\ AtContrastive(P)
              [] cfg.apply_aug = "nowhere" ->
                   AtDiscriminator(S) /\ AtCriticActor(S) /\ AtContrastive(S)
              [] cfg.apply_aug = "CL-only" ->
                   AtDiscriminator(S) /\ AtCriticActor(S) /\ AtContrastive(P)
              [] cfg.apply_aug = "CL-D" ->
                   AtDiscriminator(P) /\ AtCriticActor(S) /\ AtContrastive(P)
              [] cfg.apply_aug = "CL-Q" ->
                   AtDiscriminator(S) /\ AtCriticActor(P) /\ AtContrastive(P)
              [] OTHER -> FALSE

\* An executed update of a 'CL-D' agent: photometric discriminator input,
\* shifted critic/actor input.
C14_Witness ==
    /\ cfg.variant = "cl" /\ cfg.apply_aug = "CL-D" /\ CompletedUpdate
    /\ ~cfg.depth_flag /\ ~cfg.segm_flag
    /\ loc.aug.D = "photometric" /\ loc.aug.R = "photometric"
    /\ loc.aug.Q = "RandomShiftsAug" /\ loc.aug.positive = "photometric"

\* The last call ran a diagnostic image dump that failed.
DumpFailed ==
    /\ ExecutedUpdate
    /\ call.step % cfg.check_every_steps = 0
    /\ loc.dump_fails \in ImageDumps

\* Every parameter update of an executed update of the contrastive agent.
AllParameterUpdates ==
    /\ \A o \in {"CL", "discriminator", "critic", "actor"} : Count(trace, "step", o) = 1
    /\ Count(trace, "step", "encoder") >= 1
    /\ Count(trace, "soft_update", "critic_target") = 1

\* C15: a failing diagnostic image dump (check_aug, check_aug_CL) does not
\* block the update of the contrastive agent: the call still performs all its
\* parameter updates and returns.
C15_DumpFailureDoesNotBlock ==
    (cfg.variant = "cl" /\ DumpFailed) => (CompletedUpdate /\ AllParameterUpdates)

\* C16: an executed update on non-square observation batches (H # W) fails
\* on the augmenters' shape assertion before any network parameter, optimizer
\* state or critic-target parameter is modified, in both agents and under
\* every augmentation routing.
C16_NonSquareFailsBeforeAnyChange ==
    [][(ExecutedUpdate' /\ ~loc'.square.agent /\ ~loc'.square.expert)
          => /\ ret'.kind = "error" /\ ret'.exc = "AssertionError"
             /\ net' = net /\ opt' = opt]_vars

\* A trained agent (one executed update done) whose next executed update
\* met non-square batches and raised the assertion.
C16_Witness ==
    /\ ExecutedUpdate /\ ~loc.square.agent /\ ~loc.square.expert
    /\ ret.exc = "AssertionError"
    /\ opt.critic = 1 /\ opt.discriminator = 1 /\ net.critic_target # RInt(0)

\* C17: an executed update whose agent batch and expert batch have different
\* numbers of rows raises, for both discriminator losses and in both agents.
C17_MismatchedBatchSizesFatal ==
    (ExecutedUpdate /\ loc.n.agent # loc.n.expert) => FailedUpdate

\* Two rows show the same underlying observation.
SameObservation(a, p) == a.buf = p.buf /\ a.row = p.row

\* update_CL has assembled its anchors and positives from well-formed batches
\* (the two random batches have the same number of rows).
Assembled ==
    /\ fx.f = "update_CL" /\ fx.done /\ fx.exc = "none"
    /\ fx.n_random = fx.n_expert_random

\* C18: for every CL_data_type the anchor and positive batches of the
\* contrastive update have the same number of rows, and the positive in row i
\* is a view of the same underlying observation as the anchor in row i.
C18_PositiveIsViewOfAnchor ==
    Assembled =>
        /\ Len(fx.anchors) = Len(fx.positives)
        /\ \A i \in DOMAIN fx.anchors : SameObservation(fx.anchors[i], fx.positives[i])

\* x <= y on rationals.
RLeq(x, y) == ~RLess(y, x)

\* C19: the least-square reward of a score d is exactly reward_d_coef at
\* d = 1, exactly 0 whenever |d - 1| >= 2, and for reward_d_coef >= 0 it lies
\* between 0 and reward_d_coef.
C19_LeastSquareRewardRange ==
    (fx.f = "compute_reward" /\ fx.done) =>
        LET dist == RSub(fx.d, RInt(1))
        IN  /\ fx.d = RInt(1) => fx.out = fx.coef
            /\ (RLeq(RInt(2), dist) \/ RLeq(dist, RInt(-2))) => fx.out = RInt(0)
            /\ RLeq(RInt(0), fx.coef) =>
                   RLeq(RInt(0), fx.out) /\ RLeq(fx.out, fx.coef)

\* A score strictly inside the window and a positive coefficient: the reward
\* is strictly between 0 and the coefficient (d = 2 gives 3/4 of it).
C19_Witness ==
    /\ fx.f = "compute_reward" /\ fx.done
    /\ fx.d = RInt(2) /\ fx.coef = RInt(2) /\ fx.out = Rat(3, 2)

\* The bilinear score a W p of an anchor a and a positive p.
Bilinear(a, W, p) == Dot(a, [k \in DOMAIN W |-> Dot(W[k], p)])

\* The columns at which a row takes value m.
ColumnsAt(row, m) == {j \in DOMAIN row : row[j] = m}

\* The scores z_a (W z_pos^T) of the batches under evaluation, entry by entry.
RawScores ==
    [i \in DOMAIN fx.z_a |->
        [j \in DOMAIN fx.z_pos |-> Bilinear(fx.z_a[i], fx.W, fx.z_pos[j])]]

\* C20: for anchor and positive batches of B rows compute_logits returns a
\* B x B matrix, the scores z_a (W z_pos^T) with each row's own maximum
\* subtracted: every entry is <= 0, every row's largest entry is exactly 0,
\* and each row's maximum sits where it sat before the subtraction.
C20_LogitsRowMaxZero ==
    (fx.f = "compute_logits" /\ fx.done) =>
        LET B == Len(fx.z_a)
            raw == RawScores
        IN  /\ DOMAIN fx.logits = 1..B
            /\ \A i \in 1..B :
                  /\ DOMAIN fx.logits[i] = 1..B
                  /\ \A j \in 1..B :
                        /\ fx.logits[i][j] = raw[i][j] - RowMax(raw[i])
                        /\ fx.logits[i][j] <= 0
                  /\ \E j \in 1..B : fx.logits[i][j] = 0
                  /\ ColumnsAt(fx.logits[i], 0) = ColumnsAt(raw[i], RowMax(raw[i]))

\* Two rows with different maxima, at different columns, each with an entry
\* below its maximum: the rows are shifted by different amounts.
C20_Witness ==
    /\ fx.f = "compute_logits" /\ fx.done /\ Len(fx.z_a) = 2
    /\ RowMax(RawScores[1]) = 4 /\ RowMax(RawScores[2]) = 0
    /\ fx.logits[1] = <<0, -4>> /\ fx.logits[2] = <<-4, 0>>

\* A sequence of trace positions is strictly increasing and none is missing
\* (a sub-step that does not occur exactly once has position 0).
InOrder(ps) ==
    /\ \A i \in DOMAIN ps : ps[i] > 0
    /\ \A i, j \in DOMAIN ps : i < j => ps[i] < ps[j]

\* The encoder forward passes between the contrastive step and the
\* discriminator step of the last call.
DiscriminatorEncodings ==
    {i \in DOMAIN trace :
        /\ trace[i].op = "forward" /\ trace[i].arg = "encoder"
        /\ At(trace, "step", "CL") < i /\ i < At(trace, "step", "discriminator")}

\* C21: in every executed update call of the contrastive agent the sub-steps
\* occur exactly once each and in this order: the draws of the agent, expert,
\* random-agent and random-expert batches; the contrastive step of the encoder
\* and W optimizers; the four gradient-free encodings for the discriminator;
\* the discriminator optimizer step; the reward computation, which scores with
\* the discriminator that step has just updated; the critic step; the actor
\* step; the soft update of the critic target.
C21_ContrastiveUpdateOrder ==
    (ExecutedUpdate /\ cfg.variant = "cl") =>
        /\ InOrder(<<At(trace, "next", "agent"), At(trace, "next", "expert"),
                     At(trace, "next", "random"), At(trace, "next", "expert_random"),
                     At(trace, "call", "update_CL"), At(trace, "backward", "CL_loss"),
                     At(trace, "step", "CL"),
                     At(trace, "call", "update_discriminator"),
                     At(trace, "step", "discriminator"),
                     At(trace, "call", "compute_reward"),
                     At(trace, "eval", "discriminator"),
                     At(trace, "call", "update_critic"), At(trace, "step", "critic"),
                     At(trace, "call", "update_actor"), At(trace, "step", "actor"),
                     At(trace, "soft_update", "critic_target")>>)
        /\ trace[Len(trace)].op = "soft_update"
        /\ <<"encoder", {"CL_loss"}>> \in loc.applied
        /\ trace[At(trace, "step", "CL") - 1] =
               [op |-> "step", arg |-> "encoder", no_grad |-> FALSE]
        /\ Cardinality(DiscriminatorEncodings) = 4
        /\ \A i \in DiscriminatorEncodings : trace[i].no_grad
        /\ loc.pre.compute_reward.net.discriminator =
               loc.post.update_discriminator.net.discriminator
        /\ loc.d = DiscScore(loc.post.update_discriminator.net.discriminator)

\* The second executed update of a contrastive agent that also steps its
\* encoder with the critic loss: the reward was computed from a discriminator
\* that differs from the one the call started with.
C21_Witness ==
    /\ ExecutedUpdate /\ cfg.variant = "cl" /\ cfg.train_encoder_w_critic
    /\ opt.discriminator = 2 /\ opt.CL = 2
    /\ Count(trace, "step", "encoder") = 2
    /\ loc.d # DiscScore(loc.pre.update_discriminator.net.discriminator)
    /\ loc.d = DiscScore(net.discriminator)

\* Between two snapshots only the parameters and optimizer states named in
\* `nets` and `opts` differ.
OnlyChanged(pre, post, nets, opts) ==
    /\ \A n \in DOMAIN pre.net \ nets : post.net[n] = pre.net[n]
    /\ \A o \in DOMAIN pre.opt \ opts : post.opt[o] = pre.opt[o]

\* C22: update_discriminator changes only the discriminator's parameters and
\* the state of the discriminator optimizer: the encoder, actor, critic,
\* critic target and contrastive module (and every other optimizer) are the
\* same on return as on entry.  Its inputs were encoded with gradients
\* disabled, so its loss reaches no parameter but the discriminator's.
C22_DiscriminatorStepFrame ==
    ExecutedUpdate =>
        /\ OnlyChanged(loc.pre.update_discriminator, loc.post.update_discriminator,
                       {"discriminator"}, {"discriminator"})
        /\ loc.post.update_discriminator.opt.discriminator =
               loc.pre.update_discriminator.opt.discriminator + 1
        /\ loc.graph.D = {}
        /\ \A n \in DOMAIN grad \ {"discriminator"} : "discriminator_loss" \notin grad[n]
        /\ <<"discriminator", {"discriminator_loss"}>> \in loc.applied

\* The discriminator step of a second executed update: the encoder, the
\* actor and the critic had already left their initial values, and the
\* discriminator moved.
C22_Witness ==
    /\ ExecutedUpdate /\ opt.discriminator = 2
    /\ loc.pre.update_discriminator.net.encoder # InitNet.encoder
    /\ loc.pre.update_discriminator.net.actor # InitNet.actor
    /\ loc.pre.update_discriminator.net.critic # InitNet.critic
    /\ loc.post.update_discriminator.net.discriminator #
           loc.pre.update_discriminator.net.discriminator

\* C23: update_actor changes only the actor's parameters (and the state of
\* the actor optimizer): the encoder, the critic, the critic target and the
\* discriminator are the same on return as on entry.  The latent it is given
\* is detached, so the actor loss does not reach the encoder; it does reach
\* the live critic, whose parameters no optimizer steps on that gradient.
C23_ActorStepFrame ==
    ExecutedUpdate =>
        /\ OnlyChanged(loc.pre.update_actor, loc.post.update_actor,
                       {"actor"}, {"actor"})
        /\ loc.post.update_actor.opt.actor = loc.pre.update_actor.opt.actor + 1
        /\ loc.post.update_actor.net.actor # loc.pre.update_actor.net.actor
        /\ loc.graph.obs = {"encoder"} /\ loc.graph.actor_obs = {}
        /\ "actor_loss" \in grad.critic /\ "actor_loss" \notin grad.encoder
        /\ \A a \in loc.applied : ("actor_loss" \in a[2]) => a = <<"actor", {"actor_loss"}>>
        /\ <<"actor", {"actor_loss"}>> \in loc.applied

\* The actor step of a second executed update: the critic it reads had been
\* trained, and the gradient the first actor loss left on the critic was
\* still there when the call began.
C23_Witness ==
    /\ ExecutedUpdate /\ opt.actor = 2
    /\ loc.pre.update_actor.net.critic # InitNet.critic
    /\ loc.pre.update_actor.net.encoder # InitNet.encoder
    /\ loc.post.update_actor.net.critic = loc.pre.update_actor.net.critic
    /\ "actor_loss" \in grad.critic

\* The gradients the encoder optimizer consumed in the last call.
EncoderGradients == {a[2] : a \in {b \in loc.applied : b[1] = "encoder"}}

\* C24: in update_critic of the contrastive agent the encoder optimizer is
\* stepped if and only if train_encoder_w_critic is true.  When it is false,
\* update_critic changes only the critic's parameters, and within the executed
\* update call the encoder is modified by the contrastive step alone, on the
\* gradient of the contrastive loss alone.
C24_EncoderSteppedWithCriticIffFlag ==
    (ExecutedUpdate /\ cfg.variant = "cl") =>
        LET pre == loc.pre.update_critic
            post == loc.post.update_critic
        IN  /\ (post.net.encoder # pre.net.encoder) = cfg.train_encoder_w_critic
            /\ (post.opt.encoder # pre.opt.encoder) = cfg.train_encoder_w_critic
            /\ post.opt.critic = pre.opt.critic + 1
            /\ OnlyChanged(pre, post, {"critic", "encoder"}, {"critic", "encoder"})
            /\ EncoderGradients =
                   IF cfg.train_encoder_w_critic
                   THEN {{"CL_loss"}, {"critic_loss"}} ELSE {{"CL_loss"}}
            /\ ~cfg.train_encoder_w_critic =>
                   /\ OnlyChanged(pre, post, {"critic"}, {"critic"})
                   /\ Count(trace, "step", "encoder") = 1
                   /\ At(trace, "call", "update_CL") < At(trace, "step", "encoder")
                   /\ At(trace, "step", "encoder") < At(trace, "step", "CL")
                   /\ loc.pre.update_CL.net.encoder # loc.post.update_CL.net.encoder
                   /\ net.encoder = loc.post.update_CL.net.encoder
                   /\ opt.encoder = loc.post.update_CL.opt.encoder

\* The second executed update of a contrastive agent built with
\* train_encoder_w_critic false: its critic moved, its encoder was stepped
\* once per call, and the critic loss of the first call had left a gradient
\* on the encoder that no step consumed.
C24_Witness ==
    /\ ExecutedUpdate /\ cfg.variant = "cl" /\ ~cfg.train_encoder_w_critic
    /\ opt.encoder = 2 /\ opt.critic = 2 /\ opt.CL = 2
    /\ loc.post.update_critic.net.critic # loc.pre.update_critic.net.critic
    /\ loc.post.update_critic.net.encoder = loc.pre.update_critic.net.encoder
    /\ "critic_loss" \in grad.encoder
    /\ EncoderGradients = {{"CL_loss"}}

\* The buffer iterators update is given.
GivenIterators ==
    IF cfg.variant = "bisim" THEN {"agent", "expert"}
    ELSE {"agent", "expert", "random", "expert_random"}

\* The order in which update draws from them.
DrawOrder ==
    IF cfg.variant = "bisim" THEN <<"agent", "expert">>
    ELSE <<"agent", "expert", "random", "expert_random">>

\* C25: an executed update call draws exactly one batch from every buffer
\* iterator it is given -- agent and expert in the bisimulation agent; agent,
\* expert, random-agent and random-expert, in that order, in the contrastive
\* agent -- whatever CL_data_type and from_dem are, before it does anything
\* else; a skipped call draws none.  Hence all the given iterators have been
\* advanced the same number of times, once per executed call.
C25_OneDrawPerIteratorPerExecutedUpdate ==
    /\ [](/\ \A it \in GivenIterators : iters[it] = iters.agent
          /\ \A it \in DOMAIN iters \ GivenIterators : iters[it] = 0
          /\ iters.agent <= ncalls)
    /\ [][IF ExecutedUpdate' /\ ncalls' = ncalls + 1
          THEN /\ \A it \in GivenIterators :
                     iters'[it] = iters[it] + 1 /\ Count(trace', "next", it) = 1
               /\ \A i \in DOMAIN DrawOrder :
                     trace'[i] = [op |-> "next", arg |-> DrawOrder[i], no_grad |-> FALSE]
          ELSE iters' = iters]_vars

\* Two update calls of which the second alone was executed, by a contrastive
\* agent learning from demonstrations whose contrastive update uses the agent
\* batch only: each of the four iterators has been advanced once.
C25_Witness ==
    /\ cfg.variant = "cl" /\ cfg.CL_data_type = "agent" /\ cfg.from_dem
    /\ ncalls = 2 /\ ExecutedUpdate /\ CompletedUpdate
    /\ iters = [agent |-> 1, expert |-> 1, random |-> 1, expert_random |-> 1]

====
